---- MODULE Spec2Model ----
(***************************************************************************)
(* Model of chess.com_API.py: the fetch -> series -> rolling statistics -> *)
(* metrics -> plateau pipeline run by main(), and the plateau detector     *)
(* find_rating_plateaus as a row-by-row scan.                              *)
(*                                                                         *)
(* Floats are exact rationals [nan, num, den]; NaN is the undefined value  *)
(* pandas puts in diff() and rolling() columns.  A date is represented by  *)
(* the epoch second datetime.fromtimestamp was given (a fixed-offset local *)
(* zone, in which the conversion is strictly monotone).                    *)
(* The remote service, the scheduler of KeyboardInterrupt and the tie      *)
(* order of the unstable sort are the sources of nondeterminism.           *)
(***************************************************************************)
EXTENDS Integers, Sequences, FiniteSets, TLC

VARIABLES
    pc,               \* position of the run
    trace,            \* time.sleep / requests.get calls made so far, in order
    stats,            \* stats_data of get_player_stats: "unset", "empty", "full"
    archives,         \* the selected archive list (month ids), analyze_rating_progression
    i,                \* 1-based position of the per-archive loop
    monthly_games,    \* games of the archive being processed
    g,                \* 1-based position of the per-game loop
    rating_history,   \* list of {date, rating, time_control}
    fetched,          \* per loop iteration: what the request for that archive gave
    completed,        \* loop positions whose game list was processed to its end
    interrupts,       \* loop positions at which the KeyboardInterrupt handler ran
    df,               \* the DataFrame (None or its rows)
    metrics,          \* result of calculate_progress_metrics (None until called)
    plateaus,         \* list of plateaus emitted by find_rating_plateaus
    called,           \* downstream stages main has invoked
    window,           \* find_rating_plateaus parameter
    threshold,        \* find_rating_plateaus parameter
    idx,              \* 1-based row the detector's scan is at
    current_plateau   \* the detector's open plateau (None or the anchor)

vars == <<pc, trace, stats, archives, i, monthly_games, g, rating_history,
          fetched, completed, interrupts, df, metrics, plateaus, called,
          window, threshold, idx, current_plateau>>

-----------------------------------------------------------------------------
(* Bounds of the model *)

MaxArchives == 4
BigBatch == 11
MaxInterrupts == 1
MaxLen == 6
MaxWindow == 2
MaxThreshold == 2

-----------------------------------------------------------------------------
(* Program constants *)

max_months == 3
RollingWindow == 20
MainPlateauWindow == 30
MainPlateauThreshold == 3
SleepSeconds == 2
username == "MagnusCarlsen"

-----------------------------------------------------------------------------
(* Values *)

None == [some |-> FALSE]
Some(x) == [some |-> TRUE, val |-> x]

NaN == [nan |-> TRUE, num |-> 0, den |-> 1]
Num(n) == [nan |-> FALSE, num |-> n, den |-> 1]
Frac(n, d) == [nan |-> FALSE, num |-> n, den |-> d]

Abs(n) == IF n < 0 THEN -n ELSE n

\* str.lower on the user names that occur
Lower(s) ==
    CASE s \in {"MagnusCarlsen", "magnuscarlsen", "MAGNUSCARLSEN"} -> "magnuscarlsen"
      [] s \in {"Hikaru", "hikaru"} -> "hikaru"
      [] s \in {"Nepo", "nepo"} -> "nepo"
      [] OTHER -> s

Sleep == [call |-> "sleep", kind |-> "delay", name |-> "", id |-> SleepSeconds]
Get(kind, name, id) == [call |-> "get", kind |-> kind, name |-> name, id |-> id]

\* archives[-max_archives:] if max_archives else archives
LastArchives(list, max_archives) ==
    IF max_archives = 0 THEN list
    ELSE IF Len(list) <= max_archives THEN list
    ELSE SubSeq(list, Len(list) - max_archives + 1, Len(list))

-----------------------------------------------------------------------------
(* The remote service: what a request can return *)

ArchiveLists == {[k \in 1..n |-> k] : n \in {0, 1, MaxArchives}}

BodyShapes ==
    { [n |-> 0, time |-> "asc", rate |-> "flat", stranger |-> 0, broken |-> 0],
      [n |-> 2, time |-> "tie", rate |-> "up", stranger |-> 1, broken |-> 0],
      [n |-> 2, time |-> "asc", rate |-> "up", stranger |-> 0, broken |-> 2],
      [n |-> BigBatch, time |-> "asc", rate |-> "up", stranger |-> 0, broken |-> 0],
      [n |-> BigBatch, time |-> "desc", rate |-> "zig", stranger |-> 3, broken |-> 0] }

EndTime(m, shape, j) ==
    CASE shape.time = "asc" -> m * 100 + j
      [] shape.time = "desc" -> m * 100 + (shape.n + 1 - j)
      [] OTHER -> m * 100 + (IF j = 1 THEN 2 ELSE j)

PlayerRating(shape, j) ==
    CASE shape.rate = "flat" -> 150
      [] shape.rate = "up" -> 150 + 8 * j
      [] OTHER -> 150 + 7 * (j % 2)

GameAt(m, shape, j) ==
    LET t == EndTime(m, shape, j)
        r == PlayerRating(shape, j)
        white == IF j = shape.stranger THEN [username |-> "Hikaru", rating |-> 300 + j]
                 ELSE IF j % 2 = 1 THEN [username |-> "MagnusCarlsen", rating |-> r]
                 ELSE [username |-> "Nepo", rating |-> 90 + j]
        black == IF j = shape.stranger THEN [username |-> "Nepo", rating |-> 310 + j]
                 ELSE IF j % 2 = 1 THEN [username |-> "Hikaru", rating |-> 90 + j]
                 ELSE [username |-> "magnuscarlsen", rating |-> r]
    IN  IF j = shape.broken
        THEN [end_time |-> t, white |-> white, black |-> black]
        ELSE [end_time |-> t, white |-> white, black |-> black, time_control |-> "600"]

ArchiveBody(m, shape) == [j \in 1..shape.n |-> GameAt(m, shape, j)]

-----------------------------------------------------------------------------
(* main / verify_username / get_player_stats *)

VerifyUsername ==
    /\ pc = "verify"
    /\ trace' = Append(trace, Get("profile", username, 0))
    /\ \E outcome \in {"200", "404", "raise"} :
          pc' = CASE outcome = "200" -> "stats"
                  [] outcome = "404" -> "done"
                  [] OTHER -> "crashed"
    /\ UNCHANGED <<stats, archives, i, monthly_games, g, rating_history, fetched,
                   completed, interrupts, df, metrics, plateaus, called,
                   window, threshold, idx, current_plateau>>

FetchStats ==
    /\ pc = "stats"
    /\ trace' = trace \o <<Sleep, Get("stats", Lower(username), 0)>>
    /\ \E outcome \in {"full", "empty", "non200", "request_error", "bad_json"} :
          IF outcome \in {"full", "empty"}
          THEN stats' = outcome /\ pc' = "archives"
          ELSE stats' = stats /\ pc' = "done"
    /\ UNCHANGED <<archives, i, monthly_games, g, rating_history, fetched,
                   completed, interrupts, df, metrics, plateaus, called,
                   window, threshold, idx, current_plateau>>

FetchArchiveList ==
    /\ pc = "archives"
    /\ trace' = trace \o <<Sleep, Get("archives", Lower(username), 0)>>
    /\ \/ \E list \in ArchiveLists :
             IF stats = "empty" \/ list = <<>>
             THEN pc' = "done" /\ UNCHANGED <<archives, i, rating_history>>
             ELSE /\ archives' = LastArchives(list, max_months)
                  /\ rating_history' = <<>>
                  /\ i' = 1
                  /\ pc' = "archive_loop"
       \/ \E outcome \in {"non200", "request_error", "bad_json", "missing_key"} :
             /\ pc' = IF outcome = "missing_key" THEN "crashed" ELSE "done"
             /\ UNCHANGED <<archives, i, rating_history>>
    /\ UNCHANGED <<stats, monthly_games, g, fetched, completed, interrupts, df,
                   metrics, plateaus, called, window, threshold, idx, current_plateau>>

-----------------------------------------------------------------------------
(* analyze_rating_progression: the per-archive loop *)

\* variant: the request without the delay before it
ArchiveGet_nosleep(k) == <<Get("archive", Lower(username), archives[k])>>

ArchiveGet(k) == <<Sleep, Get("archive", Lower(username), archives[k])>>

InLoop == pc = "archive_loop" /\ i <= Len(archives)

LoopFrame == UNCHANGED <<stats, archives, df, metrics, plateaus, called,
                         window, threshold, idx, current_plateau>>

\* KeyboardInterrupt raised in time.sleep, before the request is issued
ArchiveInterrupted ==
    /\ InLoop
    /\ Cardinality(interrupts) < MaxInterrupts
    /\ interrupts' = interrupts \cup {i}
    /\ fetched' = Append(fetched, [requested |-> FALSE, ok |-> FALSE, games |-> <<>>])
    /\ i' = i + 1
    /\ UNCHANGED <<pc, trace, monthly_games, g, rating_history, completed>>
    /\ LoopFrame

\* requests.get raises: except Exception, next archive
ArchiveRequestError ==
    /\ InLoop
    /\ trace' = trace \o ArchiveGet(i)
    /\ fetched' = Append(fetched, [requested |-> TRUE, ok |-> FALSE, games |-> <<>>])
    /\ i' = i + 1
    /\ UNCHANGED <<pc, monthly_games, g, rating_history, completed, interrupts>>
    /\ LoopFrame

\* variant: a non-200 status ends the loop instead of skipping the archive
ArchiveNon200_break ==
    /\ InLoop
    /\ trace' = trace \o ArchiveGet(i)
    /\ fetched' = Append(fetched, [requested |-> TRUE, ok |-> FALSE, games |-> <<>>])
    /\ i' = Len(archives) + 1
    /\ UNCHANGED <<pc, monthly_games, g, rating_history, completed, interrupts>>
    /\ LoopFrame

\* status_code != 200: continue
ArchiveNon200 ==
    /\ InLoop
    /\ trace' = trace \o ArchiveGet(i)
    /\ fetched' = Append(fetched, [requested |-> TRUE, ok |-> FALSE, games |-> <<>>])
    /\ i' = i + 1
    /\ UNCHANGED <<pc, monthly_games, g, rating_history, completed, interrupts>>
    /\ LoopFrame

\* .json() raises or the body has no 'games': except Exception, next archive
ArchiveMalformed ==
    /\ InLoop
    /\ trace' = trace \o ArchiveGet(i)
    /\ fetched' = Append(fetched, [requested |-> TRUE, ok |-> FALSE, games |-> <<>>])
    /\ i' = i + 1
    /\ UNCHANGED <<pc, monthly_games, g, rating_history, completed, interrupts>>
    /\ LoopFrame

\* status 200 with a game list
ArchiveOK ==
    /\ InLoop
    /\ trace' = trace \o ArchiveGet(i)
    /\ \E shape \in BodyShapes :
          LET body == ArchiveBody(archives[i], shape)
          IN  /\ monthly_games' = body
              /\ fetched' = Append(fetched, [requested |-> TRUE, ok |-> TRUE, games |-> body])
    /\ g' = 1
    /\ pc' = "game_loop"
    /\ UNCHANGED <<i, rating_history, completed, interrupts>>
    /\ LoopFrame

-----------------------------------------------------------------------------
(* analyze_rating_progression: the per-game loop *)

WellFormed(game) == "time_control" \in DOMAIN game

NeitherMatches(game, user) ==
    /\ Lower(game.white.username) # Lower(user)
    /\ Lower(game.black.username) # Lower(user)

SelectRating(game, user) ==
    IF Lower(game.white.username) = Lower(user)
    THEN game.white.rating
    ELSE game.black.rating

RecordOf(game, user) ==
    [date |-> game.end_time,
     rating |-> SelectRating(game, user),
     time_control |-> game.time_control]

InGames == pc = "game_loop" /\ g <= Len(monthly_games)

ProcessGame ==
    /\ InGames
    /\ WellFormed(monthly_games[g])
    /\ rating_history' = Append(rating_history, RecordOf(monthly_games[g], username))
    /\ g' = g + 1
    /\ UNCHANGED <<pc, trace, i, monthly_games, fetched, completed, interrupts>>
    /\ LoopFrame

\* a game without an expected field: KeyError, except Exception, next archive
GameMalformed ==
    /\ InGames
    /\ ~WellFormed(monthly_games[g])
    /\ i' = i + 1
    /\ pc' = "archive_loop"
    /\ UNCHANGED <<trace, monthly_games, g, rating_history, fetched, completed,
                   interrupts>>
    /\ LoopFrame

\* KeyboardInterrupt while the games are processed: print, next archive
GameInterrupted ==
    /\ InGames
    /\ Cardinality(interrupts) < MaxInterrupts
    /\ interrupts' = interrupts \cup {i}
    /\ i' = i + 1
    /\ pc' = "archive_loop"
    /\ UNCHANGED <<trace, monthly_games, g, rating_history, fetched, completed>>
    /\ LoopFrame

GamesDone ==
    /\ pc = "game_loop"
    /\ g > Len(monthly_games)
    /\ completed' = completed \cup {i}
    /\ i' = i + 1
    /\ pc' = "archive_loop"
    /\ UNCHANGED <<trace, monthly_games, g, rating_history, fetched, interrupts>>
    /\ LoopFrame

-----------------------------------------------------------------------------
(* analyze_rating_progression: the DataFrame and its derived columns *)

Min(S) == CHOOSE x \in S : \A y \in S : x <= y
Max(S) == CHOOSE x \in S : \A y \in S : x >= y

\* df.sort_values('date'): the default sort is not stable, so records with
\* equal dates may come out in any order.  The orders are the index
\* sequences that list the records by non-decreasing date.
RECURSIVE SortedOrders(_, _)
SortedOrders(recs, S) ==
    IF S = {} THEN {<<>>}
    ELSE LET m == Min({recs[k].date : k \in S})
             first == {k \in S : recs[k].date = m}
         IN  UNION {{<<c>> \o t : t \in SortedOrders(recs, S \ {c})} : c \in first}

\* Series.diff(): NaN first, then the difference to the previous row
Diff(col) ==
    [k \in 1..Len(col) |-> IF k = 1 THEN NaN ELSE Num(col[k] - col[k - 1])]

\* Series.rolling(window=W).mean() with min_periods = W, as pandas' roll_mean
\* computes it: a running sum and a count of the non-NaN observations, the
\* value leaving the window removed and the entering one added at each row.
RECURSIVE RollFrom(_, _, _, _, _)
RollFrom(col, W, k, sum, nobs) ==
    IF k > Len(col) THEN <<>>
    ELSE LET out == IF k - W >= 1 /\ ~col[k - W].nan THEN col[k - W].num ELSE 0
             outn == IF k - W >= 1 /\ ~col[k - W].nan THEN 1 ELSE 0
             in == IF col[k].nan THEN 0 ELSE col[k].num
             inn == IF col[k].nan THEN 0 ELSE 1
             s == sum - out + in
             n == nobs - outn + inn
             res == IF n >= W /\ n > 0 THEN Frac(s, n) ELSE NaN
         IN  <<res>> \o RollFrom(col, W, k + 1, s, n)

\* variant: a window one row short
RollingMean_short(col, W) == RollFrom(col, W - 1, 1, 0, 0)

RollingMean(col, W) == RollFrom(col, W, 1, 0, 0)

\* lines 118-129: DataFrame of the sorted records with the derived columns
Derive(recs) ==
    LET rating == [k \in 1..Len(recs) |-> recs[k].rating]
        change == Diff(rating)
        rr == RollingMean([k \in 1..Len(recs) |-> Num(rating[k])], RollingWindow)
        rate == RollingMean(change, RollingWindow)
    IN  [k \in 1..Len(recs) |->
            [date |-> recs[k].date,
             rating |-> recs[k].rating,
             time_control |-> recs[k].time_control,
             rating_change |-> change[k],
             games_played |-> k - 1,
             rolling_rating |-> rr[k],
             rating_change_rate |-> rate[k]]]

LoopEnded == pc = "archive_loop" /\ i > Len(archives)

MainFrame == UNCHANGED <<trace, stats, archives, i, monthly_games, g, rating_history,
                         fetched, completed, interrupts>>

\* variant: no emptiness check, an empty series is returned and plotted
AnalyzeEmpty_series ==
    /\ LoopEnded
    /\ rating_history = <<>>
    /\ df' = Some(<<>>)
    /\ called' = called \cup {"plot"}
    /\ pc' = "done"
    /\ UNCHANGED <<metrics, plateaus, window, threshold, idx, current_plateau>>
    /\ MainFrame

\* if not rating_history: return None; main prints "Failed to fetch data"
AnalyzeEmpty ==
    /\ LoopEnded
    /\ rating_history = <<>>
    /\ df' = None
    /\ pc' = "done"
    /\ UNCHANGED <<metrics, plateaus, called, window, threshold, idx, current_plateau>>
    /\ MainFrame

AnalyzeBuild ==
    /\ LoopEnded
    /\ rating_history # <<>>
    /\ \E order \in SortedOrders(rating_history, 1..Len(rating_history)) :
          df' = Some(Derive([k \in 1..Len(order) |-> rating_history[order[k]]]))
    /\ pc' = "metrics"
    /\ UNCHANGED <<metrics, plateaus, called, window, threshold, idx, current_plateau>>
    /\ MainFrame

-----------------------------------------------------------------------------
(* calculate_progress_metrics (rating_volatility, the sample standard      *)
(* deviation, is irrational in general and is left out of the record)      *)

\* variant: the average taken over count - 1
calculate_progress_metrics_nm1(rows) ==
    LET n == Len(rows)
        ratings == {rows[k].rating : k \in 1..n}
    IN  [total_games |-> n,
         initial_rating |-> rows[1].rating,
         final_rating |-> rows[n].rating,
         total_gain |-> rows[n].rating - rows[1].rating,
         average_gain_per_game |-> Frac(rows[n].rating - rows[1].rating, n - 1),
         max_rating |-> Max(ratings),
         min_rating |-> Min(ratings)]

calculate_progress_metrics(rows) ==
    LET n == Len(rows)
        ratings == {rows[k].rating : k \in 1..n}
    IN  [total_games |-> n,
         initial_rating |-> rows[1].rating,
         final_rating |-> rows[n].rating,
         total_gain |-> rows[n].rating - rows[1].rating,
         average_gain_per_game |-> Frac(rows[n].rating - rows[1].rating, n),
         max_rating |-> Max(ratings),
         min_rating |-> Min(ratings)]

CalculateMetrics ==
    /\ pc = "metrics"
    /\ metrics' = Some(calculate_progress_metrics(df.val))
    /\ called' = called \cup {"metrics"}
    /\ pc' = "plateaus"
    /\ UNCHANGED <<df, plateaus, window, threshold, idx, current_plateau>>
    /\ MainFrame

-----------------------------------------------------------------------------
(* find_rating_plateaus *)

\* line 168: df['rolling_change'] = df['rating_change'].rolling(window).mean()
WithRollingChange(rows, W) ==
    LET rc == RollingMean([k \in 1..Len(rows) |-> rows[k].rating_change], W)
    IN  [k \in 1..Len(rows) |->
            [date |-> rows[k].date,
             rating |-> rows[k].rating,
             time_control |-> rows[k].time_control,
             rating_change |-> rows[k].rating_change,
             games_played |-> rows[k].games_played,
             rolling_rating |-> rows[k].rolling_rating,
             rating_change_rate |-> rows[k].rating_change_rate,
             rolling_change |-> rc[k]]]

\* variant: <= in place of <
Qualifies_le(rc, t) == ~rc.nan /\ Abs(rc.num) <= t * rc.den

\* line 173: abs(row['rolling_change']) < threshold; False for NaN
Qualifies(rc, t) == ~rc.nan /\ Abs(rc.num) < t * rc.den

\* lines 175-179
Anchor(row) ==
    [start_rating |-> row.rating,
     start_game |-> row.games_played,
     start_date |-> row.date]

\* lines 181-190
Plateau(cur, row) ==
    [start_rating |-> cur.start_rating,
     end_rating |-> row.rating,
     games_span |-> row.games_played - cur.start_game,
     start_game_number |-> cur.start_game,
     end_game_number |-> row.games_played,
     start_date |-> cur.start_date,
     end_date |-> row.date]

\* variant: the open plateau is not cleared after it is emitted
PlateauStep_noclear(acc, row, t) ==
    IF Qualifies(row.rolling_change, t)
    THEN IF ~acc.current.some
         THEN [current |-> Some(Anchor(row)), plateaus |-> acc.plateaus]
         ELSE acc
    ELSE IF acc.current.some
         THEN [current |-> acc.current,
               plateaus |-> Append(acc.plateaus, Plateau(acc.current.val, row))]
         ELSE acc

\* lines 173-191: the body of the loop for one row
PlateauStep(acc, row, t) ==
    IF Qualifies(row.rolling_change, t)
    THEN IF ~acc.current.some
         THEN [current |-> Some(Anchor(row)), plateaus |-> acc.plateaus]
         ELSE acc
    ELSE IF acc.current.some
         THEN [current |-> None,
               plateaus |-> Append(acc.plateaus, Plateau(acc.current.val, row))]
         ELSE acc

RECURSIVE ScanFrom(_, _, _, _)
ScanFrom(rows, k, acc, t) ==
    IF k > Len(rows) THEN acc
    ELSE ScanFrom(rows, k + 1, PlateauStep(acc, rows[k], t), t)

find_rating_plateaus(rows, W, t) ==
    ScanFrom(WithRollingChange(rows, W), 1, [current |-> None, plateaus |-> <<>>], t).plateaus

\* main, line 253: plateaus = find_rating_plateaus(df, window=30, threshold=3)
FindPlateaus ==
    /\ pc = "plateaus"
    /\ window' = MainPlateauWindow
    /\ threshold' = MainPlateauThreshold
    /\ df' = Some(WithRollingChange(df.val, MainPlateauWindow))
    /\ plateaus' = find_rating_plateaus(df.val, MainPlateauWindow, MainPlateauThreshold)
    /\ called' = called \cup {"plateaus"}
    /\ pc' = "plot"
    /\ UNCHANGED <<metrics, idx, current_plateau>>
    /\ MainFrame

\* main, line 261: plot_rating_progression(df)
PlotRatingProgression ==
    /\ pc = "plot"
    /\ called' = called \cup {"plot"}
    /\ pc' = "done"
    /\ UNCHANGED <<df, metrics, plateaus, window, threshold, idx, current_plateau>>
    /\ MainFrame

-----------------------------------------------------------------------------
(* find_rating_plateaus, row by row *)

ScanFrame == UNCHANGED <<trace, stats, archives, i, monthly_games, g, rating_history,
                         fetched, completed, interrupts, metrics, called,
                         window, threshold>>

DetectorEnter ==
    /\ pc = "detect_call"
    /\ df' = Some(WithRollingChange(df.val, window))
    /\ plateaus' = <<>>
    /\ current_plateau' = None
    /\ idx' = 1
    /\ pc' = "scan"
    /\ ScanFrame

AtRow == pc = "scan" /\ idx <= Len(df.val)

ScanStep ==
    LET acc == PlateauStep([current |-> current_plateau, plateaus |-> plateaus],
                           df.val[idx], threshold)
    IN  /\ current_plateau' = acc.current
        /\ plateaus' = acc.plateaus
        /\ idx' = idx + 1
        /\ UNCHANGED <<pc, df>>
        /\ ScanFrame

ScanOpen ==
    /\ AtRow
    /\ Qualifies(df.val[idx].rolling_change, threshold)
    /\ ~current_plateau.some
    /\ ScanStep

ScanContinue ==
    /\ AtRow
    /\ Qualifies(df.val[idx].rolling_change, threshold)
    /\ current_plateau.some
    /\ ScanStep

ScanClose ==
    /\ AtRow
    /\ ~Qualifies(df.val[idx].rolling_change, threshold)
    /\ current_plateau.some
    /\ ScanStep

ScanSkip ==
    /\ AtRow
    /\ ~Qualifies(df.val[idx].rolling_change, threshold)
    /\ ~current_plateau.some
    /\ ScanStep

\* variant: a plateau still open at the end is emitted, ending at the last row
ScanReturn_flush ==
    /\ pc = "scan"
    /\ idx > Len(df.val)
    /\ pc' = "returned"
    /\ plateaus' = IF current_plateau.some
                   THEN Append(plateaus, Plateau(current_plateau.val, df.val[Len(df.val)]))
                   ELSE plateaus
    /\ UNCHANGED <<df, current_plateau, idx>>
    /\ ScanFrame

\* line 193: return plateaus
ScanReturn ==
    /\ pc = "scan"
    /\ idx > Len(df.val)
    /\ pc' = "returned"
    /\ UNCHANGED <<df, plateaus, current_plateau, idx>>
    /\ ScanFrame

-----------------------------------------------------------------------------
(* Specifications *)

Init ==
    /\ pc = "verify"
    /\ trace = <<>>
    /\ stats = "unset"
    /\ archives = <<>>
    /\ i = 1
    /\ monthly_games = <<>>
    /\ g = 1
    /\ rating_history = <<>>
    /\ fetched = <<>>
    /\ completed = {}
    /\ interrupts = {}
    /\ df = None
    /\ metrics = None
    /\ plateaus = <<>>
    /\ called = {}
    /\ window = 0
    /\ threshold = 0
    /\ idx = 1
    /\ current_plateau = None

Next ==
    \/ VerifyUsername
    \/ FetchStats
    \/ FetchArchiveList
    \/ ArchiveInterrupted
    \/ ArchiveRequestError
    \/ ArchiveNon200
    \/ ArchiveMalformed
    \/ ArchiveOK
    \/ ProcessGame
    \/ GameMalformed
    \/ GameInterrupted
    \/ GamesDone
    \/ AnalyzeEmpty
    \/ AnalyzeBuild
    \/ CalculateMetrics
    \/ FindPlateaus
    \/ PlotRatingProgression

Spec == Init /\ [][Next]_vars

\* the series find_rating_plateaus is called with
DetRatings == {100, 101, 104}

DetDate(p, k) == IF p = "distinct" THEN 500 + k ELSE 500 + (k \div 2)

DetInputs ==
    UNION {{[k \in 1..n |-> [date |-> DetDate(p, k), rating |-> r[k], time_control |-> "600"]]
              : r \in [1..n -> DetRatings], p \in {"distinct", "paired"}}
           : n \in 0..MaxLen}

InitDetector ==
    /\ pc = "detect_call"
    /\ trace = <<>>
    /\ stats = "unset"
    /\ archives = <<>>
    /\ i = 1
    /\ monthly_games = <<>>
    /\ g = 1
    /\ rating_history = <<>>
    /\ fetched = <<>>
    /\ completed = {}
    /\ interrupts = {}
    /\ \E recs \in DetInputs : df = Some(Derive(recs))
    /\ metrics = None
    /\ plateaus = <<>>
    /\ called = {}
    /\ window \in 1..MaxWindow
    /\ threshold \in 0..MaxThreshold
    /\ idx = 1
    /\ current_plateau = None

NextDetector ==
    \/ DetectorEnter
    \/ ScanOpen
    \/ ScanContinue
    \/ ScanClose
    \/ ScanSkip
    \/ ScanReturn

SpecDetector == InitDetector /\ [][NextDetector]_vars

-----------------------------------------------------------------------------
(* Reference definitions used by the properties: the trailing mean of a     *)
(* column written out directly, a sum over the window divided by W.         *)

RECURSIVE SumNum(_, _, _)
SumNum(col, a, b) == IF a > b THEN 0 ELSE col[a].num + SumNum(col, a + 1, b)

WindowDefined(col, k, W) ==
    /\ k - W + 1 >= 1
    /\ \A j \in (k - W + 1)..k : ~col[j].nan

\* x is the defined value s / W
IsMean(x, s, W) == ~x.nan /\ x.den > 0 /\ x.num * W = s * x.den

ChangeCol(rows) == [k \in 1..Len(rows) |-> rows[k].rating_change]
RatingCol(rows) == [k \in 1..Len(rows) |-> Num(rows[k].rating)]

\* row k has a defined trailing mean of rating_change over W rows whose
\* magnitude is below t
RowQualifies(rows, k, W, t) ==
    /\ WindowDefined(ChangeCol(rows), k, W)
    /\ Abs(SumNum(ChangeCol(rows), k - W + 1, k)) < t * W

Scanning == pc \in {"scan", "returned"}

-----------------------------------------------------------------------------
(* Properties of find_rating_plateaus (SpecDetector) *)

\* C1: every emitted plateau, with start row s and end row e, is a maximal
\* qualifying run bounded by a break: rows s..e-1 have a defined rolling_change
\* (the trailing mean of rating_change over the detector's window) of magnitude
\* below the threshold, row e has it undefined or of magnitude >= threshold,
\* row s-1 (if any) does not qualify, and the start and end fields are those of
\* rows s and e.
C1_PlateauIsMaximalRun ==
    Scanning =>
        \A q \in 1..Len(plateaus) :
            LET p == plateaus[q]
                rows == df.val
                s == p.start_game_number + 1
                e == p.end_game_number + 1
            IN  /\ 1 <= s /\ s < e /\ e <= Len(rows)
                /\ \A k \in s..(e - 1) :
                      /\ RowQualifies(rows, k, window, threshold)
                      /\ IsMean(rows[k].rolling_change,
                                SumNum(ChangeCol(rows), k - window + 1, k), window)
                /\ ~RowQualifies(rows, e, window, threshold)
                /\ rows[e].rolling_change.nan
                      \/ Abs(rows[e].rolling_change.num)
                            >= threshold * rows[e].rolling_change.den
                /\ s > 1 => ~RowQualifies(rows, s - 1, window, threshold)
                /\ p.start_rating = rows[s].rating
                /\ p.start_date = rows[s].date
                /\ rows[s].games_played = p.start_game_number
                /\ p.end_rating = rows[e].rating
                /\ p.end_date = rows[e].date
                /\ rows[e].games_played = p.end_game_number

C1_Witness ==
    /\ pc = "returned"
    /\ window = 2
    /\ \E q \in 1..Len(plateaus) :
          /\ plateaus[q].games_span >= 2
          /\ plateaus[q].start_rating # plateaus[q].end_rating

\* C2: when the scan has returned, the number of emitted plateaus is the number
\* of qualifying runs that are followed by a disqualifying row; a run that
\* reaches the last row is still open and was not emitted; an empty series
\* gives an empty list.
C2_OnlyClosedRunsEmitted ==
    pc = "returned" =>
        LET rows == df.val
            n == Len(rows)
            closed == {k \in 1..(n - 1) :
                          /\ RowQualifies(rows, k, window, threshold)
                          /\ ~RowQualifies(rows, k + 1, window, threshold)}
        IN  /\ Len(plateaus) = Cardinality(closed)
            /\ \A q \in 1..Len(plateaus) : plateaus[q].end_game_number + 1 \in
                                              {k + 1 : k \in closed}
            /\ (n >= 1 /\ RowQualifies(rows, n, window, threshold)) =>
                  /\ current_plateau.some
                  /\ \A q \in 1..Len(plateaus) :
                        plateaus[q].end_game_number < current_plateau.val.start_game
            /\ n = 0 => plateaus = <<>>

C2_Witness ==
    /\ pc = "returned"
    /\ Len(df.val) >= 1
    /\ RowQualifies(df.val, Len(df.val), window, threshold)
    /\ Len(plateaus) >= 1

\* C10: at every step of the scan the emitted plateaus are in increasing order
\* and pairwise disjoint: games_span = end_game_number - start_game_number >= 1,
\* each later plateau starts strictly after the end of the one before it, and an
\* open plateau is anchored strictly after the end of the last emitted one.
C10_PlateausOrderedDisjoint ==
    Scanning =>
        /\ \A q \in 1..Len(plateaus) :
              /\ plateaus[q].games_span
                    = plateaus[q].end_game_number - plateaus[q].start_game_number
              /\ plateaus[q].games_span >= 1
        /\ \A q \in 1..(Len(plateaus) - 1) :
              plateaus[q + 1].start_game_number > plateaus[q].end_game_number
        /\ (current_plateau.some /\ plateaus # <<>>) =>
              current_plateau.val.start_game > plateaus[Len(plateaus)].end_game_number

C10_Witness ==
    /\ pc = "scan"
    /\ Len(plateaus) >= 2
    /\ current_plateau.some

-----------------------------------------------------------------------------
(* Properties of the pipeline run by main (Spec) *)

Range(seq) == {seq[k] : k \in 1..Len(seq)}

IsGet(e) == e.call = "get"
IsArchiveGet(e) == e.call = "get" /\ e.kind = "archive"

\* month ids of the archive requests issued so far, in order
ArchiveRequests ==
    LET gets == SelectSeq(trace, IsArchiveGet)
    IN  [k \in 1..Len(gets) |-> gets[k].id]

\* the loop over the selected archives has run to its end
LoopOver == archives # <<>> /\ pc \in {"metrics", "plateaus", "plot", "done"}

\* C3 as claimed: processing a game in which neither side is the queried user
\* adds no record to the rating series.
C3_NeitherSideAddsNoRecord ==
    [][(pc = "game_loop" /\ g <= Len(monthly_games)
          /\ NeitherMatches(monthly_games[g], username))
        => rating_history' = rating_history]_vars

\* C4 as claimed: once the interrupt handler has run at loop position k, no
\* request is issued for any archive after position k.
C4_InterruptAbortsRemainingFetches ==
    \A k \in interrupts :
        \A j \in (k + 1)..Len(archives) :
            Get("archive", Lower(username), archives[j]) \notin Range(trace)

\* C5: a failing archive request (non-200, request error, undecodable body or
\* missing field) does not stop the loop: the archive requests issued are those
\* of the selected list in list order (all of them once the loop is over, but
\* for a position where an interrupt struck before the request), and the games
\* of every archive that was processed to its end are all in the series.
C5_FailedArchiveSkipped ==
    LET asked == SelectSeq([k \in 1..Len(fetched) |-> k],
                           LAMBDA k : fetched[k].requested)
    IN  /\ ArchiveRequests = [k \in 1..Len(asked) |-> archives[asked[k]]]
        /\ LoopOver => Len(fetched) = Len(archives)
        /\ \A k \in 1..Len(fetched) :
              fetched[k].requested \/ k \in interrupts
        /\ df.some =>
              \A k \in completed :
                  \A j \in 1..Len(fetched[k].games) :
                      LET t == fetched[k].games[j].end_time
                      IN  Cardinality({x \in 1..Len(fetched[k].games) :
                                          fetched[k].games[x].end_time = t})
                            <= Cardinality({x \in 1..Len(df.val) : df.val[x].date = t})

C5_Witness ==
    /\ df.some
    /\ \E k \in 1..Len(fetched) :
          /\ fetched[k].requested /\ ~fetched[k].ok
          /\ \E j \in completed : j > k /\ Len(fetched[j].games) > 0

\* C6 as claimed: every outbound request is immediately preceded by the delay.
C6_DelayBeforeEveryRequest ==
    \A p \in 1..Len(trace) :
        IsGet(trace[p]) => (p > 1 /\ trace[p - 1] = Sleep)

\* C6 amended: every outbound request other than the player existence check is
\* immediately preceded by the fixed delay; the existence check is the first
\* call of the run and has no delay before it.
C6_DelayBeforeEveryRequestButProfile ==
    \A p \in 1..Len(trace) :
        IsGet(trace[p]) =>
            IF trace[p].kind = "profile"
            THEN p = 1
            ELSE p > 1 /\ trace[p - 1] = Sleep

C6_Witness ==
    /\ Cardinality({p \in 1..Len(trace) : IsArchiveGet(trace[p])}) >= 2
    /\ \E p \in 1..Len(trace) : trace[p].kind = "stats"

\* C7: when no archive yielded any game, analyze_rating_progression returns no
\* series and main calls none of the metrics summarizer, the plateau detector
\* and the charting stage.
C7_EmptyInputStopsPipeline ==
    rating_history = <<>> =>
        /\ ~df.some
        /\ ~metrics.some
        /\ called = {}
        /\ pc \notin {"metrics", "plateaus", "plot"}

C7_Witness ==
    /\ pc = "done"
    /\ LoopOver
    /\ rating_history = <<>>
    /\ \E k \in completed : fetched[k].ok

\* C8: in the series built by analyze_rating_progression (sorted by date,
\* W = 20), with 0-based position p: rating_change[0] is undefined and
\* rating_change[p] = rating[p] - rating[p-1] for p > 0; rolling_rating[p] is
\* defined exactly when p >= W-1 and is then the mean of rating[p-W+1..p];
\* rating_change_rate[p] is defined exactly when p >= W and is then the mean of
\* rating_change[p-W+1..p]; a series shorter than W has no defined rolling value.
C8_DerivedColumns ==
    df.some =>
        LET rows == df.val
            n == Len(rows)
            W == 20
        IN  /\ n = Len(rating_history)
            /\ \A k \in 1..(n - 1) : rows[k].date <= rows[k + 1].date
            /\ \A k \in 1..n :
                  LET p == k - 1
                  IN  /\ rows[k].games_played = p
                      /\ p = 0 => rows[k].rating_change.nan
                      /\ p > 0 => rows[k].rating_change
                                     = Num(rows[k].rating - rows[k - 1].rating)
                      /\ ~rows[k].rolling_rating.nan <=> p >= W - 1
                      /\ p >= W - 1 =>
                            IsMean(rows[k].rolling_rating,
                                   SumNum(RatingCol(rows), k - W + 1, k), W)
                      /\ ~rows[k].rating_change_rate.nan <=> p >= W
                      /\ p >= W =>
                            IsMean(rows[k].rating_change_rate,
                                   SumNum(ChangeCol(rows), k - W + 1, k), W)

C8_Witness ==
    /\ df.some
    /\ Len(df.val) > 21
    /\ df.val[22].rating_change_rate # df.val[21].rating_change_rate
    /\ \E k \in 1..(Len(rating_history) - 1) :
          rating_history[k].date > rating_history[k + 1].date

\* C9: calculate_progress_metrics: total_games is the record count,
\* initial_rating and final_rating are the ratings of the first and last record
\* in date order, total_gain is their difference, average_gain_per_game is
\* total_gain over total_games, and max_rating and min_rating are the largest
\* and smallest rating of the series.
C9_Metrics ==
    metrics.some =>
        LET m == metrics.val
            recs == Range(rating_history)
            dates == {r.date : r \in recs}
            ratings == {r.rating : r \in recs}
        IN  /\ m.total_games = Len(rating_history)
            /\ m.initial_rating \in {r.rating : r \in {x \in recs : x.date = Min(dates)}}
            /\ m.final_rating \in {r.rating : r \in {x \in recs : x.date = Max(dates)}}
            /\ m.initial_rating = df.val[1].rating
            /\ m.final_rating = df.val[Len(df.val)].rating
            /\ m.total_gain = m.final_rating - m.initial_rating
            /\ ~m.average_gain_per_game.nan
            /\ m.average_gain_per_game.num = m.total_gain
            /\ m.average_gain_per_game.den = m.total_games
            /\ m.max_rating \in ratings /\ \A r \in ratings : r <= m.max_rating
            /\ m.min_rating \in ratings /\ \A r \in ratings : r >= m.min_rating

C9_Witness ==
    /\ metrics.some
    /\ metrics.val.total_games >= 3
    /\ metrics.val.total_gain # 0
    /\ metrics.val.max_rating > metrics.val.final_rating

====
